---- MODULE Spec2Model ----
(***************************************************************************)
(* Model of system/hci/src/vendor.c: the shim that loads libbt-vendor.so,  *)
(* resolves BLUETOOTH_VENDOR_LIB_INTERFACE, calls its init, forwards       *)
(* commands to its op and forwards its callbacks to the host stack.        *)
(*                                                                         *)
(* The shim's own state is the five file-scope statics.  The vendor        *)
(* library and the dynamic loader are the environment: dl_refs counts the  *)
(* handles dlopen gave out and dlclose has not taken back, lib_phase is    *)
(* what the library has been told so far.  Every interface function runs   *)
(* in a frame (one per thread) that is split at each call into the         *)
(* environment; a frame keeps the arguments, a snapshot of the statics at  *)
(* entry, the calls made so far and the value returned, and is cleared by  *)
(* Return.  assert() is compiled in (the file includes <assert.h> and does *)
(* not define NDEBUG): a failed assertion aborts the process.              *)
(***************************************************************************)
EXTENDS Naturals, Integers, Sequences, FiniteSets, TLC

\* ---------------------------------------------------------------- values

NULL == "NULL"

VENDOR_LIBRARY_NAME == "libbt-vendor.so"
VENDOR_LIBRARY_SYMBOL_NAME == "BLUETOOTH_VENDOR_LIB_INTERFACE"

\* The handle dlopen returns for the library, and the address dlsym returns
\* for the interface symbol in it.
HANDLE == "handle"
IFACE == "iface"

\* The opcodes that have a callback slot (vendor_async_opcode_t).
VENDOR_CONFIGURE_FIRMWARE == "VENDOR_CONFIGURE_FIRMWARE"
VENDOR_CONFIGURE_SCO == "VENDOR_CONFIGURE_SCO"
VENDOR_SET_LPM_MODE == "VENDOR_SET_LPM_MODE"
VENDOR_DO_EPILOG == "VENDOR_DO_EPILOG"
AsyncOpcodes ==
  {VENDOR_CONFIGURE_FIRMWARE, VENDOR_CONFIGURE_SCO, VENDOR_SET_LPM_MODE, VENDOR_DO_EPILOG}

\* The synchronous opcodes (vendor_opcode_t); the shim never looks at them.
SyncOpcodes == {"VENDOR_SYNC_OP_A", "VENDOR_SYNC_OP_B"}

BT_VND_OP_RESULT_SUCCESS == "BT_VND_OP_RESULT_SUCCESS"
BT_VND_OP_RESULT_FAIL == "BT_VND_OP_RESULT_FAIL"
OpResults == {BT_VND_OP_RESULT_SUCCESS, BT_VND_OP_RESULT_FAIL}

\* ---------------------------------------------------------------- bounds

\* void *param of send_command / send_async_command: 0..MaxParam.
MaxParam == 1
\* int size of buffer_alloc_cb: 1..MaxSize.
MaxSize == 1

Params == 0..MaxParam
Sizes == 1..MaxSize

\* What the host stack can pass in.
HostCallbacks == {"cb_1", "cb_2"}
SendCallbacks == {"send_cb"}
Allocators == {"alloc_1", "alloc_2"}
Addresses == {"bdaddr_1", "bdaddr_2"}

\* What the environment can answer.
InitStatuses == {0, 1, -1}
OpReturns == {0, -1}
Buffers == {"buf"}
HciOpcodes == {"hci_cmd"}
IntCmdCallbacks == {"int_cmd_cback"}
TransmitReturns == {"tx_ok", "tx_fail"}

Threads == {"main", "sender"}

\* ----------------------------------------------------------------- state

VARIABLES
  lib_handle,                      \* static void *lib_handle
  lib_interface,                   \* static bt_vendor_interface_t *lib_interface
  allocator,                       \* static const allocator_t *allocator
  callbacks,                       \* static vendor_cb callbacks[]
  send_internal_command_callback,  \* static send_internal_command_cb
  dl_refs,                         \* handles given out by dlopen, not yet dlclose'd
  lib_phase,                       \* the vendor library, as the loader and the shim left it
  frame,                           \* per thread: the interface call in progress
  delivered,                       \* the vendor callback being delivered, if any
  aborted,                         \* "no", or what stopped the process
  last_set                         \* history: the last callback given to set_callback, per opcode

vars ==
  <<lib_handle, lib_interface, allocator, callbacks, send_internal_command_callback,
    dl_refs, lib_phase, frame, delivered, aborted, last_set>>

shim == <<lib_handle, lib_interface, allocator, callbacks, send_internal_command_callback>>

Statics ==
  [lib_handle |-> lib_handle, lib_interface |-> lib_interface, allocator |-> allocator,
   callbacks |-> callbacks, sicc |-> send_internal_command_callback]

NoStatics == [none |-> TRUE]
NoDelivery == [cb |-> "none"]

IdleFrame ==
  [pc |-> "idle", fn |-> "none", args |-> <<>>, pre |-> NoStatics, calls |-> <<>>,
   ret |-> "none", ptr |-> NULL, raced |-> FALSE]

LifecycleFns == {"vendor_open", "vendor_close"}
SendFns == {"send_command", "send_async_command"}

InCall(f) == f.pc \notin {"idle", "done"}

Running == aborted = "no" /\ delivered = NoDelivery

Init ==
  /\ lib_handle = NULL
  /\ lib_interface = NULL
  /\ allocator = NULL
  /\ callbacks = [o \in AsyncOpcodes |-> NULL]
  /\ send_internal_command_callback = NULL
  /\ dl_refs = 0
  /\ lib_phase = "unloaded"
  /\ frame = [t \in Threads |-> IdleFrame]
  /\ delivered = NoDelivery
  /\ aborted = "no"
  /\ last_set = [o \in AsyncOpcodes |-> NULL]

\* A send on another thread that is between its assertion and its return while
\* thread t takes a step of vendor_open or vendor_close has overlapped it.
MarkRaced(f) == IF f.fn \in SendFns /\ InCall(f) THEN [f EXCEPT !.raced = TRUE] ELSE f

\* Thread t's frame becomes f; t is inside vendor_open or vendor_close.
LifecycleStep(t, f) ==
  frame' = [u \in Threads |-> IF u = t THEN f ELSE MarkRaced(frame[u])]

Enter(t, name, a) ==
  [IdleFrame EXCEPT !.fn = name, !.args = a, !.pre = Statics,
                    !.raced = \E u \in Threads \ {t} :
                                 frame[u].fn \in LifecycleFns /\ InCall(frame[u])]

\* ---------------------------------------------------------- the loader

\* The library is not mapped: never loaded or unloaded after a failed
\* vendor_open ("unloaded"), or unloaded by vendor_close after cleanup ("closed").
Unmapped == {"unloaded", "closed"}

\* dlclose(lib_handle): one reference less; the library is unmapped with the last.
AfterDlclose(refs) == IF refs > 0 THEN refs - 1 ELSE 0
PhaseAfterDlclose(refs, phase) ==
  IF refs > 1 THEN phase ELSE IF phase = "cleaned" THEN "closed" ELSE "unloaded"

\* ----------------------------------------------------------- vendor_open

\* error: lib_interface = NULL; if (lib_handle) dlclose(lib_handle);
\*        lib_handle = NULL; return false;
VendorOpenError_NoDlclose(t, f) ==
  /\ lib_interface' = NULL
  /\ lib_handle' = NULL
  /\ UNCHANGED <<dl_refs, lib_phase>>
  /\ LifecycleStep(t, [f EXCEPT !.pc = "done", !.ret = FALSE])

VendorOpenError_KeepHandle(t, f) ==
  /\ lib_interface' = NULL
  /\ IF lib_handle # NULL
       THEN /\ dl_refs' = AfterDlclose(dl_refs)
            /\ lib_phase' = PhaseAfterDlclose(dl_refs, lib_phase)
            /\ LifecycleStep(t, [f EXCEPT !.pc = "done", !.ret = FALSE,
                                  !.calls = Append(f.calls, [fn |-> "dlclose", handle |-> lib_handle])])
       ELSE /\ UNCHANGED <<dl_refs, lib_phase>>
            /\ LifecycleStep(t, [f EXCEPT !.pc = "done", !.ret = FALSE])
  /\ UNCHANGED lib_handle

VendorOpenError(t, f) ==
  /\ lib_interface' = NULL
  /\ IF lib_handle # NULL
       THEN /\ dl_refs' = AfterDlclose(dl_refs)
            /\ lib_phase' = PhaseAfterDlclose(dl_refs, lib_phase)
            /\ LifecycleStep(t, [f EXCEPT !.pc = "done", !.ret = FALSE,
                                  !.calls = Append(f.calls, [fn |-> "dlclose", handle |-> lib_handle])])
       ELSE /\ UNCHANGED <<dl_refs, lib_phase>>
            /\ LifecycleStep(t, [f EXCEPT !.pc = "done", !.ret = FALSE])
  /\ lib_handle' = NULL

\* assert(lib_handle == NULL); allocator = buffer_allocator;
\* lib_handle = dlopen(VENDOR_LIBRARY_NAME, RTLD_NOW); if (!lib_handle) goto error;
vendor_open(t, local_bdaddr, buffer_allocator) ==
  /\ Running
  /\ frame[t].pc = "idle"
  /\ IF lib_handle # NULL
       THEN /\ aborted' = "assert vendor_open: lib_handle == NULL"
            /\ UNCHANGED <<shim, dl_refs, lib_phase, frame, delivered, last_set>>
       ELSE /\ allocator' = buffer_allocator
            /\ \E h \in {HANDLE, NULL} :
                 LET f == Enter(t, "vendor_open",
                                [local_bdaddr |-> local_bdaddr, buffer_allocator |-> buffer_allocator])
                     g == [f EXCEPT !.calls = <<[fn |-> "dlopen", name |-> VENDOR_LIBRARY_NAME, got |-> h]>>]
                 IN  IF h # NULL
                       THEN /\ lib_handle' = h
                            /\ dl_refs' = dl_refs + 1
                            /\ lib_phase' = IF dl_refs = 0 THEN "loaded" ELSE lib_phase
                            /\ LifecycleStep(t, [g EXCEPT !.pc = "open_dlsym"])
                            /\ UNCHANGED lib_interface
                       ELSE VendorOpenError(t, g)
            /\ UNCHANGED <<callbacks, send_internal_command_callback, delivered, aborted, last_set>>

\* lib_interface = dlsym(lib_handle, VENDOR_LIBRARY_SYMBOL_NAME);
\* if (!lib_interface) goto error;
\* then the call of lib_interface->init(&lib_callbacks, local_bdaddr) begins.
vendor_open_dlsym(t) ==
  /\ Running
  /\ frame[t].pc = "open_dlsym"
  /\ \E i \in {IFACE, NULL} :
       LET f == [frame[t] EXCEPT !.calls = Append(@, [fn |-> "dlsym", handle |-> lib_handle,
                                                         symbol |-> VENDOR_LIBRARY_SYMBOL_NAME, found |-> i])]
       IN  IF i # NULL
             THEN /\ lib_interface' = i
                  /\ lib_phase' = "initializing"
                  /\ LifecycleStep(t, [f EXCEPT !.pc = "open_init",
                         !.calls = Append(f.calls, [fn |-> "init", callbacks |-> "lib_callbacks",
                                                    bdaddr |-> f.args.local_bdaddr])])
                  /\ UNCHANGED <<lib_handle, dl_refs>>
             ELSE VendorOpenError(t, f)
  /\ UNCHANGED <<allocator, callbacks, send_internal_command_callback, delivered, aborted, last_set>>

\* if (status)
InitFailed_NegativeOnly(status) == status < 0

InitFailed(status) == status # 0

\* int status = lib_interface->init(...) returns; if (status) goto error; return true;
vendor_open_init(t) ==
  /\ Running
  /\ frame[t].pc = "open_init"
  /\ \E status \in InitStatuses :
       LET f == [frame[t] EXCEPT !.calls = Append(@, [fn |-> "init returned", status |-> status])]
       IN  IF InitFailed(status)
             THEN VendorOpenError(t, f)
             ELSE /\ lib_phase' = "inited"
                  /\ LifecycleStep(t, [f EXCEPT !.pc = "done", !.ret = TRUE])
                  /\ UNCHANGED <<lib_handle, lib_interface, dl_refs>>
  /\ UNCHANGED <<allocator, callbacks, send_internal_command_callback, delivered, aborted, last_set>>

\* ---------------------------------------------------------- vendor_close

\* if (lib_interface)
MustCleanup_Always == TRUE

MustCleanup == lib_interface # NULL

\* if (lib_interface) lib_interface->cleanup();
vendor_close(t) ==
  /\ Running
  /\ frame[t].pc = "idle"
  /\ LET f == Enter(t, "vendor_close", <<>>)
     IN  IF MustCleanup
           THEN /\ lib_phase' = IF lib_phase \in Unmapped THEN lib_phase ELSE "cleaned"
                /\ LifecycleStep(t, [f EXCEPT !.pc = "close_dlclose",
                                      !.calls = <<[fn |-> "cleanup", phase |-> lib_phase]>>])
           ELSE /\ UNCHANGED lib_phase
                /\ LifecycleStep(t, [f EXCEPT !.pc = "close_dlclose"])
  /\ UNCHANGED <<shim, dl_refs, delivered, aborted, last_set>>

\* if (lib_handle) dlclose(lib_handle);
vendor_close_dlclose(t) ==
  /\ Running
  /\ frame[t].pc = "close_dlclose"
  /\ IF lib_handle # NULL
       THEN /\ dl_refs' = AfterDlclose(dl_refs)
            /\ lib_phase' = PhaseAfterDlclose(dl_refs, lib_phase)
            /\ LifecycleStep(t, [frame[t] EXCEPT !.pc = "close_clear",
                                  !.calls = Append(@, [fn |-> "dlclose", handle |-> lib_handle])])
       ELSE /\ UNCHANGED <<dl_refs, lib_phase>>
            /\ LifecycleStep(t, [frame[t] EXCEPT !.pc = "close_clear"])
  /\ UNCHANGED <<shim, delivered, aborted, last_set>>

\* lib_interface = NULL; lib_handle = NULL;
vendor_close_clear_KeepInterface(t) ==
  /\ Running
  /\ frame[t].pc = "close_clear"
  /\ lib_handle' = NULL
  /\ LifecycleStep(t, [frame[t] EXCEPT !.pc = "done"])
  /\ UNCHANGED <<lib_interface, allocator, callbacks, send_internal_command_callback,
                 dl_refs, lib_phase, delivered, aborted, last_set>>

vendor_close_clear(t) ==
  /\ Running
  /\ frame[t].pc = "close_clear"
  /\ lib_interface' = NULL
  /\ lib_handle' = NULL
  /\ LifecycleStep(t, [frame[t] EXCEPT !.pc = "done"])
  /\ UNCHANGED <<allocator, callbacks, send_internal_command_callback,
                 dl_refs, lib_phase, delivered, aborted, last_set>>

\* ------------------------------------- send_command / send_async_command

\* What the shim passes to lib_interface->op, and what it hands back.
ForwardedOp_SwapParam(opcode, param) ==
  [fn |-> "op", opcode |-> opcode, param |-> (param + 1) % (MaxParam + 1)]

ForwardedOp(opcode, param) == [fn |-> "op", opcode |-> opcode, param |-> param]

SendReturn(r) == r

\* assert(lib_interface != NULL);
Send(t, name, opcode, param) ==
  /\ Running
  /\ frame[t].pc = "idle"
  /\ IF lib_interface = NULL
       THEN /\ aborted' = "assert " \o name \o ": lib_interface != NULL"
            /\ UNCHANGED frame
       ELSE /\ frame' = [frame EXCEPT ![t] =
                   [Enter(t, name, [opcode |-> opcode, param |-> param])
                      EXCEPT !.pc = "send_call", !.ptr = lib_interface]]
            /\ UNCHANGED aborted
  /\ UNCHANGED <<shim, dl_refs, lib_phase, delivered, last_set>>

send_command(t, opcode, param) == Send(t, "send_command", opcode, param)

send_async_command(t, opcode, param) == Send(t, "send_async_command", opcode, param)

\* lib_interface->op(opcode, param) reads lib_interface a second time, with no
\* lock: next to a vendor_close on another thread the read is a data race, and
\* gives the value now in memory or the one the assertion read (kept in a
\* register).  Without a concurrent writer the two are the same.
LoadInterface(asserted) == {lib_interface, asserted}

\* The call of op through the pointer.  A NULL pointer faults; so may a call
\* into a library that dlclose has unmapped.
send_call_op(t) ==
  /\ Running
  /\ frame[t].pc = "send_call"
  /\ \E p \in LoadInterface(frame[t].ptr), mapped \in BOOLEAN :
       /\ (lib_phase \notin Unmapped) => mapped
       /\ IF p = NULL
            THEN /\ aborted' = "fault: lib_interface->op through NULL"
                 /\ UNCHANGED frame
            ELSE /\ frame' = [frame EXCEPT ![t].pc = "send_in_op",
                       ![t].calls = Append(@, ForwardedOp(frame[t].args.opcode, frame[t].args.param)
                                                @@ [phase |-> lib_phase])]
                 /\ aborted' = IF mapped THEN aborted ELSE "fault: op in an unmapped library"
  /\ UNCHANGED <<shim, dl_refs, lib_phase, delivered, last_set>>

\* op returns; the shim returns its value.
send_op_return(t) ==
  /\ Running
  /\ frame[t].pc = "send_in_op"
  /\ \E r \in OpReturns :
       frame' = [frame EXCEPT ![t].pc = "done", ![t].ret = SendReturn(r),
                   ![t].calls = Append(@, [fn |-> "op returned", value |-> r])]
  /\ UNCHANGED <<shim, dl_refs, lib_phase, delivered, aborted, last_set>>

\* ----------------------- set_callback / set_send_internal_command_callback

\* callbacks[opcode] = callback;
StoreCallback_FirstSlot(table, opcode, callback) ==
  [table EXCEPT ![VENDOR_CONFIGURE_FIRMWARE] = callback]

StoreCallback(table, opcode, callback) == [table EXCEPT ![opcode] = callback]

set_callback(t, opcode, callback) ==
  /\ Running
  /\ frame[t].pc = "idle"
  /\ callbacks' = StoreCallback(callbacks, opcode, callback)
  /\ last_set' = [last_set EXCEPT ![opcode] = callback]
  /\ frame' = [frame EXCEPT ![t] =
         [Enter(t, "set_callback", [opcode |-> opcode, callback |-> callback]) EXCEPT !.pc = "done"]]
  /\ UNCHANGED <<lib_handle, lib_interface, allocator, send_internal_command_callback,
                 dl_refs, lib_phase, delivered, aborted>>

\* send_internal_command_callback = callback;
set_send_internal_command_callback(t, callback) ==
  /\ Running
  /\ frame[t].pc = "idle"
  /\ send_internal_command_callback' = callback
  /\ frame' = [frame EXCEPT ![t] =
         [Enter(t, "set_send_internal_command_callback", [callback |-> callback])
            EXCEPT !.pc = "done"]]
  /\ UNCHANGED <<lib_handle, lib_interface, allocator, callbacks,
                 dl_refs, lib_phase, delivered, aborted, last_set>>

\* ------------------------------------------- callbacks from the library

\* The library calls back while its code runs: inside init, inside op, or on
\* a thread of its own once initialised.
LibraryCalling == lib_phase \in {"initializing", "inited"}

\* result == BT_VND_OP_RESULT_SUCCESS
Succeeded(result) == result = BT_VND_OP_RESULT_SUCCESS

\* vendor_cb callback = callbacks[<slot>]; assert(callback != NULL);
\* callback(result == BT_VND_OP_RESULT_SUCCESS);
CompletionCb(name, slot, result) ==
  /\ Running
  /\ LibraryCalling
  /\ LET callback == callbacks[slot]
     IN  IF callback = NULL
           THEN /\ aborted' = "assert " \o name \o ": callback != NULL"
                /\ delivered' = [cb |-> name, result |-> result, host |-> <<>>]
           ELSE /\ delivered' = [cb |-> name, result |-> result,
                                  host |-> <<[callee |-> callback, arg |-> Succeeded(result)]>>]
                /\ UNCHANGED aborted
  /\ UNCHANGED <<shim, dl_refs, lib_phase, frame, last_set>>

firmware_config_cb_LpmSlot(result) ==
  CompletionCb("firmware_config_cb", VENDOR_SET_LPM_MODE, result)

firmware_config_cb(result) ==
  CompletionCb("firmware_config_cb", VENDOR_CONFIGURE_FIRMWARE, result)

sco_config_cb(result) == CompletionCb("sco_config_cb", VENDOR_CONFIGURE_SCO, result)

low_power_mode_cb(result) == CompletionCb("low_power_mode_cb", VENDOR_SET_LPM_MODE, result)

epilog_cb(result) == CompletionCb("epilog_cb", VENDOR_DO_EPILOG, result)

\* uint8_t status = (result == BT_VND_OP_RESULT_SUCCESS) ? 0 : 1; ALOGI(...);
sco_audiostate_cb(result) ==
  /\ Running
  /\ LibraryCalling
  /\ delivered' = [cb |-> "sco_audiostate_cb", result |-> result, host |-> <<>>]
  /\ UNCHANGED <<shim, dl_refs, lib_phase, frame, aborted, last_set>>

\* return allocator->alloc(size);
buffer_alloc_cb(size) ==
  /\ Running
  /\ LibraryCalling
  /\ \E b \in Buffers \cup {NULL} :
       delivered' = [cb |-> "buffer_alloc_cb", size |-> size,
                     host |-> <<[callee |-> <<allocator, "alloc">>, arg |-> size, returned |-> b]>>,
                     ret |-> b]
  /\ UNCHANGED <<shim, dl_refs, lib_phase, frame, aborted, last_set>>

\* allocator->free(buffer);
buffer_free_cb_Alloc(buffer) ==
  /\ Running
  /\ LibraryCalling
  /\ delivered' = [cb |-> "buffer_free_cb", buffer |-> buffer,
                   host |-> <<[callee |-> <<allocator, "alloc">>, arg |-> buffer]>>]
  /\ UNCHANGED <<shim, dl_refs, lib_phase, frame, aborted, last_set>>

buffer_free_cb(buffer) ==
  /\ Running
  /\ LibraryCalling
  /\ delivered' = [cb |-> "buffer_free_cb", buffer |-> buffer,
                   host |-> <<[callee |-> <<allocator, "free">>, arg |-> buffer]>>]
  /\ UNCHANGED <<shim, dl_refs, lib_phase, frame, aborted, last_set>>

\* assert(send_internal_command_callback != NULL);
\* return send_internal_command_callback(opcode, (BT_HDR *)buffer, callback);
transmit_cb(opcode, buffer, callback) ==
  /\ Running
  /\ LibraryCalling
  /\ IF send_internal_command_callback = NULL
       THEN /\ aborted' = "assert transmit_cb: send_internal_command_callback != NULL"
            /\ delivered' = [cb |-> "transmit_cb", sent |-> <<opcode, buffer, callback>>, host |-> <<>>]
       ELSE /\ \E r \in TransmitReturns :
                 delivered' = [cb |-> "transmit_cb", sent |-> <<opcode, buffer, callback>>,
                               host |-> <<[callee |-> send_internal_command_callback,
                                           arg |-> <<opcode, buffer, callback>>, returned |-> r]>>,
                               ret |-> r]
            /\ UNCHANGED aborted
  /\ UNCHANGED <<shim, dl_refs, lib_phase, frame, last_set>>

\* The callback has returned into the library.
CallbackReturn ==
  /\ aborted = "no"
  /\ delivered # NoDelivery
  /\ delivered' = NoDelivery
  /\ UNCHANGED <<shim, dl_refs, lib_phase, frame, aborted, last_set>>

VendorCallback ==
  \/ \E r \in OpResults : firmware_config_cb(r)
  \/ \E r \in OpResults : sco_config_cb(r)
  \/ \E r \in OpResults : low_power_mode_cb(r)
  \/ \E r \in OpResults : sco_audiostate_cb(r)
  \/ \E n \in Sizes : buffer_alloc_cb(n)
  \/ \E b \in Buffers : buffer_free_cb(b)
  \/ \E o \in HciOpcodes, b \in Buffers, c \in IntCmdCallbacks : transmit_cb(o, b, c)
  \/ \E r \in OpResults : epilog_cb(r)
  \/ CallbackReturn

\* ------------------------------------------------------ specifications

\* The call has returned to the host stack; its frame is dropped.
Return(t) ==
  /\ Running
  /\ frame[t].pc = "done"
  /\ frame' = [frame EXCEPT ![t] = IdleFrame]
  /\ UNCHANGED <<shim, dl_refs, lib_phase, delivered, aborted, last_set>>

Lifecycle(t) ==
  \/ \E a \in Addresses, b \in Allocators : vendor_open(t, a, b)
  \/ vendor_open_dlsym(t)
  \/ vendor_open_init(t)
  \/ vendor_close(t)
  \/ vendor_close_dlclose(t)
  \/ vendor_close_clear(t)

Sending(t) ==
  \/ \E o \in SyncOpcodes, p \in Params : send_command(t, o, p)
  \/ \E o \in AsyncOpcodes, p \in Params : send_async_command(t, o, p)
  \/ send_call_op(t)
  \/ send_op_return(t)

Registering(t) ==
  \/ \E o \in AsyncOpcodes, c \in HostCallbacks \cup {NULL} : set_callback(t, o, c)
  \/ \E c \in SendCallbacks \cup {NULL} : set_send_internal_command_callback(t, c)

\* One host thread drives the interface; the library calls back.
Next ==
  \/ Lifecycle("main")
  \/ Sending("main")
  \/ Registering("main")
  \/ Return("main")
  \/ VendorCallback

Spec == Init /\ [][Next]_vars

\* send_command / send_async_command on one thread, vendor_open / vendor_close
\* on another: the file takes no lock and the statics are plain variables.
NextMT ==
  \/ Lifecycle("main")
  \/ Return("main")
  \/ Sending("sender")
  \/ Return("sender")

SpecMT == Init /\ [][NextMT]_vars
\* --------------------------------------------------------------- claims

Quiescent == \A t \in Threads : ~InCall(frame[t])

Done(t, name) == frame[t].pc = "done" /\ frame[t].fn = name

\* The positions in a frame's calls of the calls of one function.
CallsOf(c, name) == {i \in 1..Len(c) : c[i].fn = name}

\* C1: at most one vendor library is loaded at a time.  In every state the
\* number of handles dlopen gave out and dlclose has not taken back is 0 or 1,
\* and between interface calls (failed opens included) it is 1 exactly when
\* lib_handle is non-NULL.
C1_AtMostOneLibrary ==
  /\ dl_refs \in {0, 1}
  /\ Quiescent => (dl_refs = 1 <=> lib_handle # NULL)

\* A vendor_open that got a handle, failed at init and gave the handle back.
C1_Witness ==
  /\ Done("main", "vendor_open")
  /\ frame["main"].ret = FALSE
  /\ CallsOf(frame["main"].calls, "init returned") # {}
  /\ dl_refs = 0
  /\ lib_handle = NULL

\* What the environment answered to a vendor_open, read off its calls.
DlopenOk(c) == \E i \in CallsOf(c, "dlopen") : c[i].got # NULL
DlsymOk(c) == \E i \in CallsOf(c, "dlsym") : c[i].found # NULL
InitOk(c) == \E i \in CallsOf(c, "init returned") : c[i].status = 0

\* C2: vendor_open calls dlopen, then dlsym, then init, in that order: dlsym
\* only on the handle dlopen returned, init only after both succeeded, with
\* the shim's callback table and the caller's address, and at most once; it
\* returns true exactly when dlopen gave a handle, dlsym a non-NULL interface
\* and init 0, and then lib_handle and lib_interface are both non-NULL.
C2_OpenOrder ==
  \A t \in Threads :
    frame[t].fn = "vendor_open" =>
      LET c == frame[t].calls
      IN  /\ CallsOf(c, "dlopen") = {1}
          /\ c[1].name = VENDOR_LIBRARY_NAME
          /\ CallsOf(c, "dlsym") \subseteq {2}
          /\ \A i \in CallsOf(c, "dlsym") :
               /\ c[1].got # NULL
               /\ c[i].handle = c[1].got
               /\ c[i].symbol = VENDOR_LIBRARY_SYMBOL_NAME
          /\ CallsOf(c, "init") \subseteq {3}
          /\ \A i \in CallsOf(c, "init") :
               /\ DlopenOk(c) /\ DlsymOk(c)
               /\ c[i].callbacks = "lib_callbacks"
               /\ c[i].bdaddr = frame[t].args.local_bdaddr
          /\ CallsOf(c, "init returned") \subseteq {4}
          /\ frame[t].pc = "done" =>
               /\ frame[t].ret = (DlopenOk(c) /\ DlsymOk(c) /\ InitOk(c))
               /\ frame[t].ret => (lib_handle # NULL /\ lib_interface # NULL)

\* A vendor_open that returned true although nothing went wrong, after init
\* was called with the second address.
C2_Witness ==
  /\ Done("main", "vendor_open")
  /\ frame["main"].ret = TRUE
  /\ frame["main"].args.local_bdaddr = "bdaddr_2"
  /\ Len(frame["main"].calls) = 4

\* C3: a vendor_open that fails (at dlopen, at dlsym or at init) returns false
\* with lib_interface and lib_handle NULL, has dlclose'd the handle dlopen
\* returned exactly once (and nothing if dlopen returned none), has not called
\* cleanup, and leaves no handle behind: the next vendor_open finds
\* lib_handle == NULL.
C3_FailedOpenIsClosed ==
  \A t \in Threads :
    Done(t, "vendor_open") =>
      LET c == frame[t].calls
      IN  ~(DlopenOk(c) /\ DlsymOk(c) /\ InitOk(c)) =>
            /\ frame[t].ret = FALSE
            /\ lib_interface = NULL
            /\ lib_handle = NULL
            /\ dl_refs = 0
            /\ lib_phase \in Unmapped
            /\ Cardinality(CallsOf(c, "dlclose")) = (IF DlopenOk(c) THEN 1 ELSE 0)
            /\ \A i \in CallsOf(c, "dlclose") : i = Len(c) /\ c[i].handle = c[1].got
            /\ CallsOf(c, "cleanup") = {}

\* A vendor_open that failed at dlsym, after a handle was obtained.
C3_Witness ==
  /\ Done("main", "vendor_open")
  /\ frame["main"].ret = FALSE
  /\ DlopenOk(frame["main"].calls)
  /\ ~DlsymOk(frame["main"].calls)
  /\ CallsOf(frame["main"].calls, "dlclose") = {3}

CompletionCallbacks ==
  {"firmware_config_cb", "sco_config_cb", "low_power_mode_cb", "epilog_cb"}

\* The slot each completion callback is meant to serve.
SlotOf(cb) ==
  CASE cb = "firmware_config_cb" -> VENDOR_CONFIGURE_FIRMWARE
    [] cb = "sco_config_cb" -> VENDOR_CONFIGURE_SCO
    [] cb = "low_power_mode_cb" -> VENDOR_SET_LPM_MODE
    [] cb = "epilog_cb" -> VENDOR_DO_EPILOG

\* C4 as claimed: every callback the library invokes, the SCO audio state
\* callback included, results in exactly one invocation of a host-side callee
\* (taking the callee to be registered: no assertion stopped the process).
C4_Original ==
  (delivered # NoDelivery /\ aborted = "no") => Len(delivered.host) = 1

\* C4 as amended: the firmware config, SCO config, low-power mode and epilog
\* callbacks invoke the callback in the slot of their opcode exactly once, the
\* buffer alloc and buffer free callbacks the alloc and the free of the
\* allocator given to vendor_open exactly once, the transmit callback the
\* send-internal-command callback exactly once, each with the arguments
\* received and none invoking any other callee; where no callee is registered
\* the assertion stops the process before any callee is invoked; the SCO
\* audio state callback is not forwarded and invokes no host-side callee.
C4_ForwardedExceptScoAudio ==
  delivered # NoDelivery =>
    LET d == delivered
        h == delivered.host
    IN  /\ Len(h) <= 1
        /\ d.cb = "sco_audiostate_cb" => h = <<>>
        /\ d.cb \in CompletionCallbacks =>
             IF callbacks[SlotOf(d.cb)] = NULL
               THEN h = <<>> /\ aborted # "no"
               ELSE /\ aborted = "no"
                    /\ Len(h) = 1
                    /\ h[1].callee = callbacks[SlotOf(d.cb)]
        /\ d.cb = "buffer_alloc_cb" =>
             /\ h = <<[callee |-> <<allocator, "alloc">>, arg |-> d.size, returned |-> d.ret]>>
             /\ allocator \in Allocators
             /\ frame["main"].fn = "vendor_open" =>
                  allocator = frame["main"].args.buffer_allocator
        /\ d.cb = "buffer_free_cb" =>
             /\ h = <<[callee |-> <<allocator, "free">>, arg |-> d.buffer]>>
             /\ allocator \in Allocators
        /\ d.cb = "transmit_cb" =>
             IF send_internal_command_callback = NULL
               THEN h = <<>> /\ aborted # "no"
               ELSE /\ aborted = "no"
                    /\ h = <<[callee |-> send_internal_command_callback, arg |-> d.sent,
                               returned |-> d.ret]>>

\* The SCO audio state callback was delivered, and no host-side callee ran.
C4_Witness ==
  /\ delivered # NoDelivery
  /\ delivered.cb = "sco_audiostate_cb"
  /\ delivered.host = <<>>
  /\ aborted = "no"
  /\ \A o \in AsyncOpcodes : callbacks[o] # NULL

\* C5: while the library is open, send_command and send_async_command call op
\* exactly once, with the opcode and the param they were given, return what op
\* returned, and change none of lib_handle, lib_interface, the callback table,
\* the allocator and the send-internal-command callback.
C5_SendForwards ==
  \A t \in Threads :
    frame[t].fn \in SendFns =>
      LET c == frame[t].calls
          a == frame[t].args
      IN  /\ Statics = frame[t].pre
          /\ frame[t].pre.lib_interface # NULL
          /\ CallsOf(c, "op") \subseteq {1}
          /\ \A i \in CallsOf(c, "op") :
               /\ c[i].opcode = a.opcode
               /\ c[i].param = a.param
               /\ c[i].phase = "inited"
          /\ frame[t].pc = "done" =>
               /\ Len(c) = 2
               /\ c[1].fn = "op"
               /\ c[2].fn = "op returned"
               /\ frame[t].ret = c[2].value

\* A send_async_command with the largest param, which op answered with -1.
C5_Witness ==
  /\ Done("main", "send_async_command")
  /\ frame["main"].args.param = MaxParam
  /\ frame["main"].args.opcode = VENDOR_DO_EPILOG
  /\ frame["main"].ret = -1

\* C6: each completion callback calls the callback most recently registered
\* with set_callback for its own opcode, once, with true exactly when the
\* vendor result is BT_VND_OP_RESULT_SUCCESS; it calls nothing else, and
\* nothing at all when the last registration for its opcode is NULL or
\* missing.
C6_DispatchByOpcode ==
  (delivered # NoDelivery /\ delivered.cb \in CompletionCallbacks) =>
    LET registered == last_set[SlotOf(delivered.cb)]
    IN  IF registered = NULL
          THEN delivered.host = <<>>
          ELSE delivered.host =
                 <<[callee |-> registered,
                    arg |-> (delivered.result = "BT_VND_OP_RESULT_SUCCESS")]>>

\* firmware_config_cb with a failure, while another callback sits in the
\* slots of the other opcodes.
C6_Witness ==
  /\ delivered # NoDelivery
  /\ delivered.cb = "firmware_config_cb"
  /\ delivered.result = "BT_VND_OP_RESULT_FAIL"
  /\ last_set[VENDOR_CONFIGURE_FIRMWARE] = "cb_2"
  /\ \A o \in AsyncOpcodes \ {VENDOR_CONFIGURE_FIRMWARE} : last_set[o] = "cb_1"
  /\ delivered.host = <<[callee |-> "cb_2", arg |-> FALSE]>>

\* C7: vendor_close, when lib_interface is non-NULL, calls cleanup exactly
\* once and then dlclose of the handle exactly once; afterwards lib_interface
\* and lib_handle are NULL; on a shim that is already closed it calls neither
\* and changes nothing.
C7_CloseOrder ==
  \A t \in Threads :
    frame[t].fn = "vendor_close" =>
      LET c == frame[t].calls
          p == frame[t].pre
      IN  /\ CallsOf(c, "cleanup") \subseteq {1}
          /\ CallsOf(c, "dlclose") \subseteq {2}
          /\ frame[t].pc = "done" =>
               /\ lib_interface = NULL
               /\ lib_handle = NULL
               /\ dl_refs = 0
               /\ IF p.lib_interface # NULL
                    THEN /\ Len(c) = 2
                         /\ c[1] = [fn |-> "cleanup", phase |-> "inited"]
                         /\ c[2] = [fn |-> "dlclose", handle |-> p.lib_handle]
                         /\ lib_phase = "closed"
                    ELSE /\ c = <<>>
                         /\ Statics = p
                         /\ lib_phase \in Unmapped

\* A vendor_close on a shim that an earlier vendor_close (or a failed
\* vendor_open) had already closed.
C7_Witness ==
  /\ Done("main", "vendor_close")
  /\ frame["main"].pre.lib_interface = NULL
  /\ frame["main"].pre.allocator # NULL
  /\ frame["main"].calls = <<>>

CallbackAssertions ==
  {"assert " \o cb \o ": callback != NULL" : cb \in CompletionCallbacks}
    \cup {"assert transmit_cb: send_internal_command_callback != NULL"}

\* C8 as claimed: whatever the host stack has called and whenever the library
\* calls back while it is loaded, the completion callbacks find a non-NULL
\* entry in their slot and transmit_cb a non-NULL
\* send_internal_command_callback: none of these assertions fails.
C8_AssertionsHold == aborted \notin CallbackAssertions

\* C9: set_callback changes the slot of its opcode and nothing else;
\* vendor_open (whether it succeeds or fails) and vendor_close leave the
\* callback table and the send-internal-command callback as they were; so at
\* any time every slot holds what was last registered for it.
C9_RegistrationsIndependent ==
  /\ callbacks = last_set
  /\ \A t \in Threads :
       /\ Done(t, "set_callback") =>
            LET a == frame[t].args
                p == frame[t].pre
            IN  /\ callbacks[a.opcode] = a.callback
                /\ \A o \in AsyncOpcodes \ {a.opcode} : callbacks[o] = p.callbacks[o]
                /\ send_internal_command_callback = p.sicc
                /\ lib_handle = p.lib_handle
                /\ lib_interface = p.lib_interface
                /\ allocator = p.allocator
       /\ frame[t].fn \in LifecycleFns =>
            /\ callbacks = frame[t].pre.callbacks
            /\ send_internal_command_callback = frame[t].pre.sicc

\* A successful vendor_open on a shim that had been opened before, with
\* registrations made before it still in the table.
C9_Witness ==
  /\ Done("main", "vendor_open")
  /\ frame["main"].ret = TRUE
  /\ frame["main"].pre.allocator = "alloc_1"
  /\ allocator = "alloc_2"
  /\ callbacks[VENDOR_DO_EPILOG] = "cb_2"
  /\ callbacks[VENDOR_CONFIGURE_SCO] = "cb_1"
  /\ send_internal_command_callback = "send_cb"

\* The sends that called op while the library was not between a successful
\* init and the following cleanup.
OpOutsideLifetime(t) ==
  \E i \in CallsOf(frame[t].calls, "op") : frame[t].calls[i].phase # "inited"

\* The sends that called op after vendor_close had called cleanup, or cleanup
\* and dlclose.
OpAfterTeardown(t) ==
  \E i \in CallsOf(frame[t].calls, "op") : frame[t].calls[i].phase \in {"cleaned", "closed"}

\* C10 as claimed: under any interleaving of send_command or
\* send_async_command with vendor_close, op is never invoked after
\* vendor_close has called cleanup or dlclose.
C10_Original == \A t \in Threads : ~OpAfterTeardown(t)

\* C10 as amended: a send_command or send_async_command that does not overlap
\* a vendor_open or vendor_close on another thread (none takes a step between
\* the send's assertion and its return) calls op only between a successful
\* init and the following cleanup; the file takes no lock, and a send that
\* overlaps one can call op before init, after cleanup or after dlclose.
C10_NoUseAfterTeardownUnlessOverlapped ==
  \A t \in Threads : OpOutsideLifetime(t) => frame[t].raced

\* A send that passed its assertion before vendor_close began and called op
\* after cleanup.
C10_Witness ==
  /\ frame["sender"].fn \in SendFns
  /\ frame["sender"].raced
  /\ \E i \in CallsOf(frame["sender"].calls, "op") : frame["sender"].calls[i].phase = "cleaned"
====
